---- MODULE Spec2Model ----
(***************************************************************************)
(* The Quiche Config cache of doh/config.rs: a map from certificate path   *)
(* to weak Config handles plus one strong keep-alive slot, behind an       *)
(* Arc<RwLock<State>> shared by every clone of a Cache.                    *)
(*                                                                         *)
(* A Config is an Arc<Mutex<quiche::Config>>: it is modelled by the id of  *)
(* its allocation, with the Arc's strong count kept in `strong`.  Id 0 is  *)
(* Option::None wherever an Option<Config> or an absent handle is meant.   *)
(***************************************************************************)
EXTENDS Integers, FiniteSets, Sequences, TLC

\* ---------------------------------------------------------------- bounds
\* Number of quiche::Config allocations the Factory may produce in a run.
MaxRes == 3
\* Number of Config handles that callers hold or are about to receive.
MaxHandles == 2

Threads == {"t1", "t2"}
\* Callers that use a Config they hold for quiche::connect
Consumers == {"c1", "c2"}
\* cert_path values: None and Some("a"), as in the tests.
Keys == {"None", "a"}
\* The Cache values of the shared_cache test.
CacheHandles == {"cache_a", "cache_b"}

Resources == 1..MaxRes
\* One State allocation at most per Cache value.
StateIds == 1..Cardinality(CacheHandles)

NoThread == "none"
Unbuilt == "unbuilt"

VARIABLES
    cacheState,      \* Cache.state: the State allocation a Cache value points to (0: not created)
    path_to_config,  \* State.path_to_config, per State allocation
    latest,          \* State.latest, per State allocation (0: None)
    readers,         \* threads holding the RwLock's read guard, per State allocation
    writer,          \* thread holding the RwLock's write guard, per State allocation
    strong,          \* Arc strong count of each Config allocation
    cert,            \* the cert_path each Config allocation was constructed from
    ext,             \* handles returned by from_cert_path and still held by callers
    th,              \* each thread's position and locals inside Cache::from_cert_path / garbage_collect
    lost,            \* history: Configs dropped by a thread that lost the install race
    fetched,         \* history: the last two successful fetches, in the order they took effect
    lastInstalled,   \* history: the Config of the most recent install
    cons             \* each consumer's position around Config::take, and the Config it uses

vars == <<cacheState, path_to_config, latest, readers, writer, strong, cert, ext, th,
          lost, fetched, lastInstalled, cons>>

\* ------------------------------------------------------------- helpers
Idle == [pc |-> "idle", self |-> "cache_a", cert_path |-> "None",
         config |-> 0, found |-> 0, err |-> FALSE, peer |-> 0]

\* The State allocation thread t works on: self.state
StateOf(t) == cacheState[th[t].self]

\* Number of handles to r in the locals of threads inside from_cert_path
Locals(r) ==
    Cardinality({t \in Threads : th[t].config = r}) +
    Cardinality({t \in Threads : th[t].found = r})

RECURSIVE SumExt(_)
SumExt(S) == IF S = {} THEN 0
             ELSE LET r == CHOOSE x \in S : TRUE IN ext[r] + SumExt(S \ {r})

InFetch == {t \in Threads : th[t].pc \notin {"idle", "gc_locked", "gc_done"}}

Range(f) == {f[k] : k \in DOMAIN f}

\* The id the next Arc::new gets: allocations are never reused while a Weak may name them.
Fresh == CHOOSE r \in Resources : cert[r] = Unbuilt /\ \A q \in Resources : q < r => cert[q] # Unbuilt

\* ------------------------------------------------- Config (Arc and Weak)
FromWeakAlways(weak) == weak

FromWeakShared(weak) == IF strong[weak] > 1 THEN weak ELSE 0

\* Config::from_weak: Weak::upgrade gives a handle only while the strong count is nonzero.
FromWeak(weak) == IF strong[weak] > 0 THEN weak ELSE 0

\* Config::to_weak: Arc::downgrade names the same allocation ...
ToWeak(config) == config

DowngradeCountsStrong(sc, config) == [sc EXCEPT ![config] = @ + 1]

\* ... and adds no strong reference to it.
DowngradeCounts(sc, config) == sc

\* Arc::clone / a successful Weak::upgrade: one more strong reference (0 is None: nothing to count)
ArcClone(sc, r) == IF r = 0 THEN sc ELSE [sc EXCEPT ![r] = @ + 1]

\* Drop of a Config: one strong reference fewer
ArcDrop(sc, r) == IF r = 0 THEN sc ELSE [sc EXCEPT ![r] = @ - 1]

\* ----------------------------------------------------------------- State
GetConfigNoUpgrade(s, cert_path) ==
    IF cert_path \in DOMAIN path_to_config[s] THEN path_to_config[s][cert_path] ELSE 0

\* State::get_config
GetConfig(s, cert_path) ==
    IF cert_path \in DOMAIN path_to_config[s]
    THEN FromWeak(path_to_config[s][cert_path])
    ELSE 0

KeepAliveFirst(old, config) == IF old = 0 THEN config ELSE old

\* State::keep_alive: the new value of `latest`
KeepAlive(old, config) == config

KeepAliveLeak(sc, old, config) == ArcClone(sc, config)

\* Strong counts after state.keep_alive(config.clone()): the clone moves into `latest`,
\* and the assignment drops the Config the slot held before.
KeepAliveCounts(sc, old, config) == ArcDrop(ArcClone(sc, config), old)

RetainHeld(m) == [k \in {x \in DOMAIN m : strong[m[x]] > 1} |-> m[k]]

\* State::garbage_collect: HashMap::retain of the entries whose strong_count is not 0
Retain(m) == [k \in {x \in DOMAIN m : strong[m[x]] # 0} |-> m[k]]

MapInsertPruning(m, k, v) ==
    [x \in {y \in DOMAIN m : strong[m[y]] # 0} \cup {k} |-> IF x = k THEN v ELSE m[x]]

MapInsertSkipped(m, k, v) == m

\* HashMap::insert
MapInsert(m, k, v) == [x \in DOMAIN m \cup {k} |-> IF x = k THEN v ELSE m[x]]

\* ----------------------------------------------------------------- Cache
CacheCloneFresh(c) == cacheState[c] + 1

\* #[derive(Clone)] on Cache: Arc::clone of `state`, the same State allocation
CacheClone(c) == cacheState[c]

ArbitrateSkipped(s, cert_path) == 0

\* The second get_config of from_cert_path, under the write lock
Arbitrate(s, cert_path) == GetConfig(s, cert_path)

CanReadUnlessTaken(s) == writer[s] = NoThread /\ \A c \in Consumers : cons[c].pc # "using"

\* RwLock::read: granted while no thread holds the write guard
CanRead(s) == writer[s] = NoThread

CanWriteAmongReaders(s) == writer[s] = NoThread

\* RwLock::write: granted while no thread holds any guard
CanWrite(s) == writer[s] = NoThread /\ readers[s] = {}

ReadGuardKept(rs, t) == rs

\* Drop of the RwLockReadGuard temporary at the end of the `if let`
DropReadGuard(rs, t) == rs \ {t}

AfterFactoryUnchecked(ok) == "acquire_write"

\* The `?` on Config::from_cert_path: an Err returns from the function at once
AfterFactory(ok) == IF ok THEN "acquire_write" ELSE "return_err"

\* ------------------------------------------------------------------ Init
\* let cache_a = Cache::new(): one empty State, no Config constructed yet
Init ==
    /\ cacheState = [c \in CacheHandles |-> IF c = "cache_a" THEN 1 ELSE 0]
    /\ path_to_config = [s \in StateIds |-> <<>>]
    /\ latest = [s \in StateIds |-> 0]
    /\ readers = [s \in StateIds |-> {}]
    /\ writer = [s \in StateIds |-> NoThread]
    /\ strong = [r \in Resources |-> 0]
    /\ cert = [r \in Resources |-> Unbuilt]
    /\ ext = [r \in Resources |-> 0]
    /\ th = [t \in Threads |-> Idle]
    /\ lost = {}
    /\ fetched = <<>>
    /\ lastInstalled = 0
    /\ cons = [c \in Consumers |-> [pc |-> "idle", res |-> 0]]

\* --------------------------------------------------------------- history
\* Record a successful fetch at the step where it takes effect.
Push(r, inst) ==
    LET rec == [res |-> r, installed |-> inst]
    IN  IF Len(fetched) < 2 THEN Append(fetched, rec) ELSE <<fetched[2], rec>>

\* Threads that missed on their read-locked probe of the same key of the same State
\* as t and have not yet arbitrated: their cold fetch overlaps t's.
Racing(t) ==
    {u \in Threads \ {t} :
        /\ th[u].pc \in {"miss", "construct", "acquire_write"}
        /\ StateOf(u) = StateOf(t)
        /\ th[u].cert_path = th[t].cert_path}

\* t's step, with th[t] becoming rec, tells the racing threads which Config t's fetch returns.
WithPeers(t, rec, r) ==
    [u \in Threads |->
        IF u = t THEN rec
        ELSE IF u \in Racing(t) THEN [th[u] EXCEPT !.peer = r]
        ELSE th[u]]

\* --------------------------------------------------------------- actions
\* let cache_b = cache_a.clone()
CloneCache(src, dst) ==
    /\ cacheState[src] # 0
    /\ cacheState[dst] = 0
    /\ cacheState' = [cacheState EXCEPT ![dst] = CacheClone(src)]
    /\ UNCHANGED <<cons, path_to_config, latest, readers, writer, strong, cert, ext, th,
                   lost, fetched, lastInstalled>>

\* from_cert_path, fast path: self.state.read().unwrap().get_config(cert_path)
FetchProbe(t, c, k) ==
    /\ th[t].pc = "idle"
    /\ cacheState[c] # 0
    /\ SumExt(Resources) + Cardinality(InFetch) < MaxHandles
    /\ LET s == cacheState[c]
           r == GetConfig(s, k)
       IN  /\ CanRead(s)
           /\ readers' = [readers EXCEPT ![s] = @ \cup {t}]
           /\ strong' = ArcClone(strong, r)
           /\ th' = [th EXCEPT ![t] = [Idle EXCEPT !.pc = IF r # 0 THEN "hit" ELSE "miss",
                                                   !.self = c, !.cert_path = k, !.found = r]]
           /\ fetched' = IF r # 0 THEN Push(r, FALSE) ELSE fetched
    /\ UNCHANGED <<cons, cacheState, path_to_config, latest, writer, cert, ext, lost, lastInstalled>>

\* return Ok(config) of the fast path: the read guard is dropped, the caller gets the handle
FetchHitReturn(t) ==
    /\ th[t].pc = "hit"
    /\ readers' = [readers EXCEPT ![StateOf(t)] = DropReadGuard(@, t)]
    /\ ext' = [ext EXCEPT ![th[t].found] = @ + 1]
    /\ th' = [th EXCEPT ![t] = Idle]
    /\ UNCHANGED <<cons, cacheState, path_to_config, latest, writer, strong, cert,
                   lost, fetched, lastInstalled>>

\* The `if let` ends without a match: the read guard is dropped
FetchUnlockRead(t) ==
    /\ th[t].pc = "miss"
    /\ readers' = [readers EXCEPT ![StateOf(t)] = DropReadGuard(@, t)]
    /\ th' = [th EXCEPT ![t].pc = "construct"]
    /\ UNCHANGED <<cons, cacheState, path_to_config, latest, writer, strong, cert, ext,
                   lost, fetched, lastInstalled>>

\* Config::from_cert_path(cert_path.as_deref()) returns Ok(Self(Arc::new(..)))
FactoryOk(t) ==
    /\ th[t].pc = "construct"
    /\ \E r \in Resources : cert[r] = Unbuilt
    /\ cert' = [cert EXCEPT ![Fresh] = th[t].cert_path]
    /\ strong' = [strong EXCEPT ![Fresh] = 1]
    /\ th' = [th EXCEPT ![t].pc = AfterFactory(TRUE), ![t].config = Fresh]
    /\ UNCHANGED <<cons, cacheState, path_to_config, latest, readers, writer, ext,
                   lost, fetched, lastInstalled>>

\* Config::from_cert_path(cert_path.as_deref()) returns Err
FactoryErr(t) ==
    /\ th[t].pc = "construct"
    /\ th' = [th EXCEPT ![t].pc = AfterFactory(FALSE), ![t].err = TRUE]
    /\ UNCHANGED <<cons, cacheState, path_to_config, latest, readers, writer, strong, cert, ext,
                   lost, fetched, lastInstalled>>

\* from_cert_path returns the Err to its caller
FetchReturnErr(t) ==
    /\ th[t].pc = "return_err"
    /\ th' = [th EXCEPT ![t] = Idle]
    /\ UNCHANGED <<cons, cacheState, path_to_config, latest, readers, writer, strong, cert, ext,
                   lost, fetched, lastInstalled>>

\* let mut state = self.state.write().unwrap()
FetchLockWrite(t) ==
    /\ th[t].pc = "acquire_write"
    /\ CanWrite(StateOf(t))
    /\ writer' = [writer EXCEPT ![StateOf(t)] = t]
    /\ th' = [th EXCEPT ![t].pc = "arbitrate"]
    /\ UNCHANGED <<cons, cacheState, path_to_config, latest, readers, strong, cert, ext,
                   lost, fetched, lastInstalled>>

\* if let Some(config) = state.get_config(cert_path)
FetchArbitrate(t) ==
    /\ th[t].pc = "arbitrate"
    /\ LET r == Arbitrate(StateOf(t), th[t].cert_path)
       IN  IF r # 0
           THEN /\ strong' = ArcClone(strong, r)
                /\ th' = WithPeers(t, [th[t] EXCEPT !.pc = "raced", !.found = r], r)
                /\ fetched' = Push(r, FALSE)
           ELSE /\ th' = [th EXCEPT ![t].pc = "keep_alive"]
                /\ UNCHANGED <<cons, strong, fetched>>
    /\ UNCHANGED <<cons, cacheState, path_to_config, latest, readers, writer, cert, ext,
                   lost, lastInstalled>>

\* state.keep_alive(config.clone())
FetchKeepAlive(t) ==
    /\ th[t].pc = "keep_alive"
    /\ latest' = [latest EXCEPT ![StateOf(t)] = KeepAlive(@, th[t].config)]
    /\ strong' = KeepAliveCounts(strong, latest[StateOf(t)], th[t].config)
    /\ th' = [th EXCEPT ![t].pc = "insert"]
    /\ UNCHANGED <<cons, cacheState, path_to_config, readers, writer, cert, ext,
                   lost, fetched, lastInstalled>>

\* state.path_to_config.insert(cert_path.to_owned(), config.to_weak())
FetchInsert(t) ==
    /\ th[t].pc = "insert"
    /\ path_to_config' = [path_to_config EXCEPT ![StateOf(t)] =
                             MapInsert(@, th[t].cert_path, ToWeak(th[t].config))]
    /\ th' = WithPeers(t, [th[t] EXCEPT !.pc = "installed"], th[t].config)
    /\ fetched' = Push(th[t].config, TRUE)
    /\ strong' = DowngradeCounts(strong, th[t].config)
    /\ lastInstalled' = th[t].config
    /\ UNCHANGED <<cons, cacheState, latest, readers, writer, cert, ext, lost>>

\* Ok(config) after the install: the write guard is dropped at the end of the function
FetchInstalledUnlock(t) ==
    /\ th[t].pc = "installed"
    /\ writer' = [writer EXCEPT ![StateOf(t)] = NoThread]
    /\ th' = [th EXCEPT ![t].pc = "return_ok"]
    /\ UNCHANGED <<cons, cacheState, path_to_config, latest, readers, strong, cert, ext,
                   lost, fetched, lastInstalled>>

\* return Ok(config) of the arbitration: locals drop in reverse order of declaration,
\* the write guard first
FetchRacedUnlock(t) ==
    /\ th[t].pc = "raced"
    /\ writer' = [writer EXCEPT ![StateOf(t)] = NoThread]
    /\ th' = [th EXCEPT ![t].pc = "discard"]
    /\ UNCHANGED <<cons, cacheState, path_to_config, latest, readers, strong, cert, ext,
                   lost, fetched, lastInstalled>>

\* ... then the Config this thread constructed
FetchDiscard(t) ==
    /\ th[t].pc = "discard"
    /\ strong' = ArcDrop(strong, th[t].config)
    /\ lost' = lost \cup {th[t].config}
    /\ th' = [th EXCEPT ![t].pc = "return_ok", ![t].config = 0]
    /\ UNCHANGED <<cons, cacheState, path_to_config, latest, readers, writer, cert, ext,
                   fetched, lastInstalled>>

\* The Config a thread at return_ok hands to its caller
Returned(t) == IF th[t].found # 0 THEN th[t].found ELSE th[t].config

\* from_cert_path returns Ok(config) to its caller
FetchReturn(t) ==
    /\ th[t].pc = "return_ok"
    /\ ext' = [ext EXCEPT ![Returned(t)] = @ + 1]
    /\ th' = [th EXCEPT ![t] = Idle]
    /\ UNCHANGED <<cons, cacheState, path_to_config, latest, readers, writer, strong, cert,
                   lost, fetched, lastInstalled>>

\* Cache::garbage_collect: self.state.write().unwrap()
GcLockWrite(t, c) ==
    /\ th[t].pc = "idle"
    /\ cacheState[c] # 0
    /\ CanWrite(cacheState[c])
    /\ writer' = [writer EXCEPT ![cacheState[c]] = t]
    /\ th' = [th EXCEPT ![t] = [Idle EXCEPT !.pc = "gc_locked", !.self = c]]
    /\ UNCHANGED <<cons, cacheState, path_to_config, latest, readers, strong, cert, ext,
                   lost, fetched, lastInstalled>>

\* State::garbage_collect under the write guard
GarbageCollect(t) ==
    /\ th[t].pc = "gc_locked"
    /\ path_to_config' = [path_to_config EXCEPT ![StateOf(t)] = Retain(@)]
    /\ th' = [th EXCEPT ![t].pc = "gc_done"]
    /\ UNCHANGED <<cons, cacheState, latest, readers, writer, strong, cert, ext,
                   lost, fetched, lastInstalled>>

\* End of the statement in Cache::garbage_collect: the write guard is dropped
GcReturn(t) ==
    /\ th[t].pc = "gc_done"
    /\ writer' = [writer EXCEPT ![StateOf(t)] = NoThread]
    /\ th' = [th EXCEPT ![t] = Idle]
    /\ UNCHANGED <<cons, cacheState, path_to_config, latest, readers, strong, cert, ext,
                   lost, fetched, lastInstalled>>

\* Number of consumers inside Config::take or the scope of its guard on a handle to r
Engaged(r) == Cardinality({c \in Consumers : cons[c].pc # "idle" /\ cons[c].res = r})

\* A caller drops one of the Config handles it got from the cache and is not using
DropHandle(r) ==
    /\ ext[r] > Engaged(r)
    /\ ext' = [ext EXCEPT ![r] = @ - 1]
    /\ strong' = ArcDrop(strong, r)
    /\ UNCHANGED <<cons, cacheState, path_to_config, latest, readers, writer, cert, th,
                   lost, fetched, lastInstalled>>

Next ==
    \/ \E src, dst \in CacheHandles : CloneCache(src, dst)
    \/ \E t \in Threads, c \in CacheHandles, k \in Keys : FetchProbe(t, c, k)
    \/ \E t \in Threads : FetchHitReturn(t)
    \/ \E t \in Threads : FetchUnlockRead(t)
    \/ \E t \in Threads : FactoryOk(t)
    \/ \E t \in Threads : FactoryErr(t)
    \/ \E t \in Threads : FetchReturnErr(t)
    \/ \E t \in Threads : FetchLockWrite(t)
    \/ \E t \in Threads : FetchArbitrate(t)
    \/ \E t \in Threads : FetchKeepAlive(t)
    \/ \E t \in Threads : FetchInsert(t)
    \/ \E t \in Threads : FetchInstalledUnlock(t)
    \/ \E t \in Threads : FetchRacedUnlock(t)
    \/ \E t \in Threads : FetchDiscard(t)
    \/ \E t \in Threads : FetchReturn(t)
    \/ \E t \in Threads, c \in CacheHandles : GcLockWrite(t, c)
    \/ \E t \in Threads : GarbageCollect(t)
    \/ \E t \in Threads : GcReturn(t)
    \/ \E r \in Resources : DropHandle(r)

\* ------------------------------------------------------------ Config::take
CanLockAlways(r) == TRUE

\* Mutex::lock on the Config's Mutex: granted while no guard of it is alive
CanLock(r) == \A c \in Consumers : ~(cons[c].pc = "using" /\ cons[c].res = r)

\* config.take() is called on a handle the caller holds: self.0.lock()
TakeCall(c, r) ==
    /\ cons[c].pc = "idle"
    /\ ext[r] > Engaged(r)
    /\ cons' = [cons EXCEPT ![c] = [pc |-> "waiting", res |-> r]]
    /\ UNCHANGED <<cacheState, path_to_config, latest, readers, writer, strong, cert, ext, th,
                   lost, fetched, lastInstalled>>

\* The lock is granted: take returns the MutexGuard
TakeLock(c) ==
    /\ cons[c].pc = "waiting"
    /\ CanLock(cons[c].res)
    /\ cons' = [cons EXCEPT ![c].pc = "using"]
    /\ UNCHANGED <<cacheState, path_to_config, latest, readers, writer, strong, cert, ext, th,
                   lost, fetched, lastInstalled>>

\* The guard goes out of scope, after quiche::connect returned Ok or Err
TakeRelease(c) ==
    /\ cons[c].pc = "using"
    /\ cons' = [cons EXCEPT ![c] = [pc |-> "idle", res |-> 0]]
    /\ UNCHANGED <<cacheState, path_to_config, latest, readers, writer, strong, cert, ext, th,
                   lost, fetched, lastInstalled>>

TakeNext ==
    \/ \E c \in Consumers, r \in Resources : TakeCall(c, r)
    \/ \E c \in Consumers : TakeLock(c)
    \/ \E c \in Consumers : TakeRelease(c)

Spec == Init /\ [][Next]_vars

\* The cache together with consumers of the Configs it hands out
TakeSpec == Init /\ [][Next \/ TakeNext]_vars

\* A consumer's scope ends, and a consumer waiting in Mutex::lock gets the lock if it
\* is free again and again
TakeFairness == \A c \in Consumers : WF_vars(TakeRelease(c)) /\ SF_vars(TakeLock(c))

FairTakeSpec == Init /\ [][Next \/ TakeNext]_vars /\ TakeFairness

\* The steps of thread t that wait for nothing: a running thread takes them
Continue(t) ==
    \/ FetchHitReturn(t) \/ FetchUnlockRead(t)
    \/ FactoryOk(t) \/ FactoryErr(t) \/ FetchReturnErr(t)
    \/ FetchArbitrate(t) \/ FetchKeepAlive(t) \/ FetchInsert(t)
    \/ FetchInstalledUnlock(t) \/ FetchRacedUnlock(t) \/ FetchDiscard(t) \/ FetchReturn(t)
    \/ GarbageCollect(t) \/ GcReturn(t)

\* Fair scheduling: a thread that can run does, the Factory returns, and a thread
\* waiting in RwLock::write gets the lock if it is free again and again
Fairness == \A t \in Threads : WF_vars(Continue(t)) /\ SF_vars(FetchLockWrite(t))

FairSpec == Init /\ [][Next]_vars /\ Fairness

\* ---------------------------------------------------------------- claims
\* The State allocation behind the first Cache value
Shared == cacheState["cache_a"]

\* r is named by a handle that a fetch has returned or is about to return
HandedOut(r) ==
    \/ ext[r] > 0
    \/ \E t \in Threads :
          \/ th[t].found = r
          \/ th[t].config = r /\ th[t].pc \in {"keep_alive", "insert", "installed", "return_ok"}

\* Configs constructed by a thread that then found another thread's entry
Losers == lost \cup {th[t].config : t \in {u \in Threads : th[u].pc \in {"raced", "discard"}}}

InMapping(r) == \E s \in StateIds : r \in Range(path_to_config[s])

InSlot(r) == \E s \in StateIds : latest[s] = r

\* A thread is between keep_alive and insert: the slot is written, the map not yet
MidInstall == \E t \in Threads : th[t].pc = "insert"

\* C1: two live handles returned by fetches for the same key name the same Config, and
\* a Config built by the loser of an install race is never handed out, never in the
\* mapping and never in the keep-alive slot.
C1_OneResourcePerKey ==
    /\ \A r1, r2 \in Resources :
          (HandedOut(r1) /\ HandedOut(r2) /\ cert[r1] = cert[r2]) => r1 = r2
    /\ \A r \in Losers \ {0} :
          /\ ext[r] = 0
          /\ ~InMapping(r)
          /\ ~InSlot(r)
          /\ \A t \in Threads : th[t].found # r
          /\ r \in lost => strong[r] = 0

C1_Witness ==
    \E t \in Threads :
        /\ th[t].pc = "return_ok"
        /\ th[t].found # 0
        /\ ext[th[t].found] > 0
        /\ lost # {}
        /\ strong[th[t].found] = 3

\* C2: a fetch whose key has a live Config in the mapping (held by a caller or only
\* by the keep-alive slot) gets a handle to that Config, and the call goes to its
\* return without constructing anything.
C2_LiveEntryIsHit ==
    [][\A t \in Threads :
          /\ (th[t].pc = "idle" /\ th'[t].pc \in {"hit", "miss"}) =>
                LET m == path_to_config[cacheState[th'[t].self]]
                    k == th'[t].cert_path
                IN  (k \in DOMAIN m /\ strong[m[k]] > 0) =>
                        /\ th'[t].pc = "hit"
                        /\ th'[t].found = m[k]
                        /\ strong'[m[k]] = strong[m[k]] + 1
          /\ (th[t].pc = "hit" /\ th'[t].pc # th[t].pc) =>
                /\ th'[t].pc = "idle"
                /\ ext'[th[t].found] = ext[th[t].found] + 1
                /\ cert' = cert
      ]_vars

C2_Witness ==
    \E t \in Threads :
        /\ th[t].pc = "hit"
        /\ ext[th[t].found] = 0
        /\ latest[StateOf(t)] = th[t].found
        /\ strong[th[t].found] = 2

\* C3 as stated: a cold fetch that overlapped another cold fetch of the same key
\* returns the Config the other one returned.
C3_SameResourceAlways ==
    \A t \in Threads :
        (th[t].pc = "return_ok" /\ th[t].peer # 0) => Returned(t) = th[t].peer

\* C3 amended: the later of two overlapping cold fetches returns the other's Config if
\* that Config is still alive at its write-locked get_config, and otherwise its own; when
\* it returns, the mapping entry of the key is the live Config it returns, and the other
\* constructed Config is in neither the mapping nor the keep-alive slot and is dropped.
C3_RaceConvergence ==
    /\ [](\A t \in Threads :
            th[t].pc = "return_ok" =>
                LET m == path_to_config[StateOf(t)]
                    k == th[t].cert_path
                    other == IF th[t].found # 0 THEN lost ELSE {th[t].peer} \ {0}
                IN  /\ k \in DOMAIN m
                    /\ m[k] = Returned(t)
                    /\ strong[Returned(t)] > 0
                    /\ (th[t].found # 0 /\ th[t].peer # 0) => th[t].found = th[t].peer
                    /\ \A r \in other :
                          r # Returned(t) => strong[r] = 0 /\ ~InMapping(r) /\ ~InSlot(r))
    /\ [][\A t \in Threads :
            (th[t].pc = "arbitrate" /\ th'[t].pc # "arbitrate"
                /\ th[t].peer # 0 /\ strong[th[t].peer] > 0) =>
                    th'[t].pc = "raced" /\ th'[t].found = th[t].peer
         ]_vars

C3_Witness ==
    \E t \in Threads :
        /\ th[t].pc = "return_ok"
        /\ th[t].peer # 0
        /\ th[t].found = 0
        /\ th[t].config # th[t].peer
        /\ cert[th[t].peer] = th[t].cert_path

C3_WitnessSame ==
    \E t \in Threads :
        /\ th[t].pc = "return_ok"
        /\ th[t].peer # 0
        /\ th[t].found = th[t].peer
        /\ lost # {}

\* C4 as stated: the keep-alive slot holds the Config of the most recent successful
\* fetch, hit or miss.
C4_LatestIsLastFetched ==
    (fetched # <<>> /\ ~MidInstall) => latest[Shared] = fetched[Len(fetched)].res

\* C4 amended: the keep-alive slot holds a strong reference to the Config most recently
\* installed by a fetch that missed (a hit leaves the slot alone), and the cache holds
\* no strong reference to any other Config.
C4_LatestIsLastInstalled ==
    ~MidInstall =>
        /\ latest[Shared] = lastInstalled
        /\ lastInstalled # 0 => strong[lastInstalled] >= 1
        /\ \A r \in Resources \ {lastInstalled} : strong[r] = ext[r] + Locals(r)

C4_Witness ==
    /\ ~MidInstall
    /\ fetched # <<>>
    /\ ~fetched[Len(fetched)].installed
    /\ lastInstalled # 0
    /\ fetched[Len(fetched)].res # lastInstalled
    /\ latest[Shared] = lastInstalled
    /\ \A t \in Threads : th[t].pc = "idle"

\* C5 as stated: after fetch(k1) then fetch(k2), k1 # k2, with no handle kept for k1,
\* the cache holds no strong reference to k1's Config and one, the slot, to k2's.
C5_AfterAnyFetch ==
    (Len(fetched) = 2 /\ ~MidInstall) =>
        LET r1 == fetched[1].res
            r2 == fetched[2].res
        IN  (cert[r1] # cert[r2] /\ ext[r1] = 0 /\ Locals(r1) = 0) =>
                /\ latest[Shared] # r1
                /\ strong[r1] = 0
                /\ latest[Shared] = r2
                /\ strong[r2] = ext[r2] + Locals(r2) + 1

\* C5 amended: the same, when the fetch of k2 missed and installed a new Config.
C5_AfterInstallingFetch ==
    (Len(fetched) = 2 /\ ~MidInstall /\ fetched[2].installed) =>
        LET r1 == fetched[1].res
            r2 == fetched[2].res
        IN  (cert[r1] # cert[r2] /\ ext[r1] = 0 /\ Locals(r1) = 0) =>
                /\ latest[Shared] # r1
                /\ strong[r1] = 0
                /\ latest[Shared] = r2
                /\ strong[r2] = ext[r2] + Locals(r2) + 1

C5_Witness ==
    /\ Len(fetched) = 2
    /\ fetched[2].installed
    /\ cert[fetched[1].res] # cert[fetched[2].res]
    /\ ext[fetched[1].res] = 0
    /\ strong[fetched[1].res] = 0
    /\ InMapping(fetched[1].res)
    /\ strong[fetched[2].res] = 2
    /\ \A t \in Threads : th[t].pc = "idle"

\* r has a strong holder: a caller, a thread's local, or a keep-alive slot
Held(r) == ext[r] > 0 \/ Locals(r) > 0 \/ InSlot(r)

\* Positions of from_cert_path before its write lock is requested
BeforeWrite == {"idle", "miss", "construct", "return_err"}

\* C6: when the Factory fails, from_cert_path returns the error holding no handle and no
\* lock, and no step of the failing call changes the mapping or the keep-alive slot.
C6_ErrorLeavesStateAlone ==
    [][\A t \in Threads :
          /\ (~th[t].err /\ th'[t].err) =>
                /\ th[t].pc = "construct"
                /\ th'[t].pc = "return_err"
                /\ th'[t].config = 0 /\ th'[t].found = 0
                /\ \A s \in StateIds : t \notin readers'[s] /\ writer'[s] # t
          /\ (th[t].err /\ th'[t].pc # th[t].pc) => th'[t] = Idle
          /\ (th[t].pc \in BeforeWrite /\ th'[t].pc # th[t].pc) =>
                /\ path_to_config' = path_to_config
                /\ latest' = latest
      ]_vars

C6_Witness ==
    \E t \in Threads :
        /\ th[t].pc = "return_err"
        /\ th[t].err
        /\ th[t].cert_path \notin DOMAIN path_to_config[StateOf(t)]
        /\ latest[StateOf(t)] # 0
        /\ \E u \in Threads : th[u].pc = "installed"

\* C7: garbage_collect keeps, with the same target, every entry whose Config is still
\* held (by a caller or by the keep-alive slot), removes every entry whose Config has
\* no holder left, and leaves the keep-alive slot and the strong counts alone.
C7_GarbageCollectExact ==
    [][\A t \in Threads :
          (th[t].pc = "gc_locked" /\ th'[t].pc = "gc_done") =>
              LET m == path_to_config[StateOf(t)]
                  n == path_to_config'[StateOf(t)]
              IN  /\ DOMAIN n = {k \in DOMAIN m : Held(m[k])}
                  /\ DOMAIN n = {k \in DOMAIN m : strong[m[k]] # 0}
                  /\ \A k \in DOMAIN n : n[k] = m[k]
                  /\ latest' = latest
                  /\ strong' = strong
      ]_vars

C7_Witness ==
    \E t \in Threads :
        /\ th[t].pc = "gc_done"
        /\ \E r \in Resources \ lost :
              /\ cert[r] # Unbuilt
              /\ cert[r] \notin DOMAIN path_to_config[StateOf(t)]
              /\ strong[r] = 0
        /\ \E k \in DOMAIN path_to_config[StateOf(t)] :
              /\ latest[StateOf(t)] = path_to_config[StateOf(t)][k]
              /\ strong[path_to_config[StateOf(t)][k]] = 1

\* C8: the strong count of every Config is the number of handles held outside the cache
\* plus one exactly when it is in the keep-alive slot: a mapping entry adds nothing, so
\* a Config with no outside handle that is not in the slot has strong count 0 while its
\* entry stays.
C8_StrongCount ==
    \A r \in Resources :
        /\ strong[r] = ext[r] + Locals(r) + Cardinality({s \in StateIds : latest[s] = r})
        /\ (ext[r] = 0 /\ Locals(r) = 0 /\ ~InSlot(r)) => strong[r] = 0

C8_Witness ==
    /\ \A t \in Threads : th[t].pc = "idle"
    /\ \E r \in Resources : InMapping(r) /\ strong[r] = 0
    /\ \E r \in Resources : InMapping(r) /\ ext[r] = 1 /\ InSlot(r) /\ strong[r] = 2

\* C9: every created Cache value sees the same mapping and the same keep-alive slot, and
\* a fetch that hits through one Cache value gets the Config the entry has through any other.
C9_ClonesShareState ==
    \A c1, c2 \in CacheHandles :
        (cacheState[c1] # 0 /\ cacheState[c2] # 0) =>
            /\ path_to_config[cacheState[c1]] = path_to_config[cacheState[c2]]
            /\ latest[cacheState[c1]] = latest[cacheState[c2]]
            /\ \A t \in Threads :
                  (th[t].self = c1 /\ th[t].pc = "hit") =>
                      /\ th[t].cert_path \in DOMAIN path_to_config[cacheState[c2]]
                      /\ path_to_config[cacheState[c2]][th[t].cert_path] = th[t].found

C9_Witness ==
    \E t, u \in Threads :
        /\ th[t].self = "cache_b" /\ th[t].pc = "hit"
        /\ th[u].self = "cache_a" /\ th[u].pc = "return_ok"
        /\ th[u].config = th[t].found
        /\ strong[th[t].found] = 3

\* C10: a thread inside the Factory call holds neither the read guard nor the write
\* guard of any cache, and neither does a thread waiting for the write lock.
C10_NoLockWhileConstructing ==
    \A t \in Threads :
        th[t].pc \in {"construct", "acquire_write"} =>
            \A s \in StateIds : t \notin readers[s] /\ writer[s] # t

C10_Witness ==
    \E t, u \in Threads :
        /\ th[t].pc = "construct"
        /\ th[u].pc = "installed"
        /\ writer[StateOf(u)] = u
        /\ th[u].cert_path = th[t].cert_path

\* C11: a fetch of a key whose Config has no strong holder left misses on the read-locked
\* probe exactly as for a key with no entry, whether the dead entry is still in the
\* mapping or garbage_collect has removed it; it goes on to the Factory, what it
\* returns is never the destroyed Config, and its install writes the new Config over the
\* stale entry and into the keep-alive slot.
C11_DeadEntryIsColdMiss ==
    [][\A t \in Threads :
          /\ (th[t].pc = "idle" /\ th'[t].pc \in {"hit", "miss"}) =>
                LET m == path_to_config[cacheState[th'[t].self]]
                    k == th'[t].cert_path
                IN  (k \notin DOMAIN m \/ strong[m[k]] = 0) =>
                        /\ th'[t] = [Idle EXCEPT !.pc = "miss", !.self = th'[t].self,
                                                 !.cert_path = k]
                        /\ strong' = strong
          /\ (th[t].pc = "miss" /\ th'[t].pc # "miss") => th'[t].pc = "construct"
          /\ (th[t].pc = "construct" /\ th'[t].pc = "acquire_write") =>
                /\ cert[th'[t].config] = Unbuilt
                /\ cert'[th'[t].config] = th[t].cert_path
                /\ strong'[th'[t].config] = 1
          /\ (th[t].pc = "insert" /\ th'[t].pc = "installed") =>
                LET m == path_to_config[StateOf(t)]
                    k == th[t].cert_path
                IN  /\ k \in DOMAIN m => (strong[m[k]] = 0 /\ m[k] # th[t].config)
                    /\ path_to_config'[StateOf(t)][k] = th[t].config
                    /\ latest'[StateOf(t)] = th[t].config
                    /\ strong'[th[t].config] = 2
          /\ (th[t].pc = "return_ok" /\ th'[t].pc = "idle") =>
                /\ strong[Returned(t)] > 0
                /\ ext'[Returned(t)] = ext[Returned(t)] + 1
      ]_vars

\* The stale entry is still in the mapping when the new Config is installed over it
C11_Witness ==
    \E t \in Threads :
        /\ th[t].pc = "insert"
        /\ th[t].cert_path \in DOMAIN path_to_config[StateOf(t)]
        /\ strong[path_to_config[StateOf(t)][th[t].cert_path]] = 0
        /\ latest[StateOf(t)] = th[t].config
        /\ \E k \in DOMAIN path_to_config[StateOf(t)] :
              k # th[t].cert_path /\ strong[path_to_config[StateOf(t)][k]] > 0

\* garbage_collect has removed the stale entry before the new Config is installed
C11_WitnessCollected ==
    \E t \in Threads :
        /\ th[t].pc = "insert"
        /\ th[t].cert_path \notin DOMAIN path_to_config[StateOf(t)]
        /\ \E r \in Resources \ (lost \cup {th[t].config}) :
              cert[r] = th[t].cert_path /\ strong[r] = 0

\* C12: an upgrade of a mapping entry (Config::from_weak inside get_config) gives a handle
\* to the entry's Config exactly when its strong count is above zero at that step, and
\* then raises the count by one; a Config whose count has reached zero never gets a
\* strong reference again.
C12_UpgradeIffAlive ==
    [][/\ \A t \in Threads :
            LET probe == th[t].pc = "idle" /\ th'[t].pc \in {"hit", "miss"}
                again == th[t].pc = "arbitrate" /\ th'[t].pc \in {"raced", "keep_alive"}
                m == path_to_config[cacheState[th'[t].self]]
                k == th'[t].cert_path
            IN  ((probe \/ again) /\ k \in DOMAIN m) =>
                    IF strong[m[k]] > 0
                    THEN /\ th'[t].found = m[k]
                         /\ strong' = [strong EXCEPT ![m[k]] = @ + 1]
                    ELSE /\ th'[t].found = 0
                         /\ strong' = strong
       /\ \A r \in Resources :
            (cert[r] # Unbuilt /\ strong[r] = 0) => strong'[r] = 0
      ]_vars

C12_Witness ==
    \E t \in Threads :
        /\ th[t].pc = "miss"
        /\ th[t].cert_path \in DOMAIN path_to_config[StateOf(t)]
        /\ strong[path_to_config[StateOf(t)][th[t].cert_path]] = 0
        /\ \E k \in DOMAIN path_to_config[StateOf(t)] :
              /\ strong[path_to_config[StateOf(t)][k]] = 1
              /\ latest[StateOf(t)] = path_to_config[StateOf(t)][k]

\* Positions at which a thread holds the write guard, and the read guard
WriteGuardPcs == {"arbitrate", "keep_alive", "insert", "installed", "raced", "gc_locked", "gc_done"}

ReadGuardPcs == {"hit", "miss"}

WriteHolders(s) == {t \in Threads : th[t].pc \in WriteGuardPcs /\ StateOf(t) = s}

ReadHolders(s) == {t \in Threads : th[t].pc \in ReadGuardPcs /\ StateOf(t) = s}

\* C14: at most one thread is inside a write-locked section of a cache, and then no
\* thread is inside a read-locked section of it; the mapping and the keep-alive slot
\* change only in a step of the thread that holds the write guard.
C14_WriteLockExclusive ==
    /\ [](\A s \in StateIds :
            /\ Cardinality(WriteHolders(s)) <= 1
            /\ WriteHolders(s) # {} => (ReadHolders(s) = {} /\ WriteHolders(s) = {writer[s]})
            /\ WriteHolders(s) = {} => writer[s] = NoThread
            /\ ReadHolders(s) = readers[s])
    /\ [][\A s \in StateIds :
            (path_to_config'[s] # path_to_config[s] \/ latest'[s] # latest[s]) =>
                /\ writer[s] # NoThread
                /\ writer'[s] = writer[s]
                /\ th[writer[s]].pc \in {"keep_alive", "insert", "gc_locked"}
                /\ th'[writer[s]].pc # th[writer[s]].pc
         ]_vars

\* Two threads hold the read guard at once, both on the hit path
C14_Witness ==
    \E s \in StateIds :
        /\ readers[s] = Threads
        /\ \A t \in Threads : th[t].pc = "hit" /\ StateOf(t) = s

\* Thread t takes the step from position p to position q
Moves(t, p, q) == th[t].pc = p /\ th'[t].pc = q

\* C17: a key leaves the mapping only in the retain step of garbage_collect; the only
\* other change to the mapping is the insert step of a fetch, which sets the entry of
\* its own key and keeps every other entry; steps that drop handles (a caller's drop,
\* the keep-alive replacement, the loser's discard) leave the mapping as it is, so a
\* dead entry stays.
C17_KeysLeaveOnlyByGc ==
    [][\A s \in StateIds :
          LET m == path_to_config[s]
              n == path_to_config'[s]
              gc == \E t \in Threads : StateOf(t) = s /\ Moves(t, "gc_locked", "gc_done")
          IN  /\ (DOMAIN m \ DOMAIN n # {}) => gc
              /\ (n # m /\ ~gc) =>
                    \E t \in Threads :
                        /\ StateOf(t) = s
                        /\ Moves(t, "insert", "installed")
                        /\ DOMAIN n = DOMAIN m \cup {th[t].cert_path}
                        /\ n[th[t].cert_path] = th[t].config
                        /\ \A k \in DOMAIN m \ {th[t].cert_path} : n[k] = m[k]
              /\ (\E r \in Resources : strong'[r] < strong[r]) => n = m
      ]_vars

\* A fetch has installed its key while the dead entry of another key is still there
C17_Witness ==
    \E t \in Threads :
        /\ th[t].pc = "installed"
        /\ \E k \in DOMAIN path_to_config[StateOf(t)] :
              /\ k # th[t].cert_path
              /\ strong[path_to_config[StateOf(t)][k]] = 0

\* C18: while no thread holds the write guard, an occupied keep-alive slot holds the
\* Config that the mapping has for that Config's cert_path.
C18_SlotIsMapped ==
    \A s \in StateIds :
        (writer[s] = NoThread /\ latest[s] # 0) =>
            /\ cert[latest[s]] \in DOMAIN path_to_config[s]
            /\ path_to_config[s][cert[latest[s]]] = latest[s]

\* The slot's Config has no other holder, garbage_collect has just run, another key was
\* installed and died before
C18_Witness ==
    \E s \in StateIds :
        /\ writer[s] = NoThread
        /\ latest[s] # 0
        /\ strong[latest[s]] = 1
        /\ DOMAIN path_to_config[s] = {cert[latest[s]]}
        /\ \E r \in Resources \ lost : cert[r] \notin {Unbuilt, cert[latest[s]]} /\ strong[r] = 0

\* C19: the keep-alive slot changes only in the keep_alive step of a fetch that missed
\* on the read-locked probe, constructed its Config and missed again under the write
\* lock; the slot then holds that Config, and an occupied slot is never emptied.
C19_SlotChangesOnlyOnInstall ==
    [][\A s \in StateIds :
          /\ latest'[s] # latest[s] =>
                \E t \in Threads :
                    /\ StateOf(t) = s
                    /\ Moves(t, "keep_alive", "insert")
                    /\ ~th[t].err
                    /\ th[t].found = 0
                    /\ th[t].config # 0
                    /\ cert[th[t].config] = th[t].cert_path
                    /\ (th[t].cert_path \in DOMAIN path_to_config[s] =>
                            strong[path_to_config[s][th[t].cert_path]] = 0)
                    /\ latest'[s] = th[t].config
          /\ latest[s] # 0 => latest'[s] # 0
      ]_vars

\* A fetch hits a Config other than the one in the occupied slot
C19_Witness ==
    \E t \in Threads :
        /\ th[t].pc = "hit"
        /\ latest[StateOf(t)] # 0
        /\ latest[StateOf(t)] # th[t].found
        /\ lastInstalled = latest[StateOf(t)]

\* C20: an entry whose Config is alive keeps its key and its target in every step.
C20_LiveEntryKept ==
    [][\A s \in StateIds : \A k \in DOMAIN path_to_config[s] :
          strong[path_to_config[s][k]] > 0 =>
              /\ k \in DOMAIN path_to_config'[s]
              /\ path_to_config'[s][k] = path_to_config[s][k]
      ]_vars

\* Under the write lock a thread found the live entry of its key and kept it
C20_Witness ==
    \E t \in Threads :
        /\ th[t].pc = "raced"
        /\ path_to_config[StateOf(t)][th[t].cert_path] = th[t].found
        /\ th[t].config # th[t].found
        /\ strong[th[t].config] = 1

Using(r) == {c \in Consumers : cons[c].pc = "using" /\ cons[c].res = r}

C16_CacheNeverWaitsForTake ==
    \A t \in Threads :
        /\ (th[t].pc = "idle" /\ SumExt(Resources) + Cardinality(InFetch) < MaxHandles) =>
              \A c \in CacheHandles : \A k \in Keys :
                  (cacheState[c] # 0 /\ writer[cacheState[c]] = NoThread) =>
                      ENABLED FetchProbe(t, c, k)
        /\ th[t].pc = "idle" =>
              \A c \in CacheHandles :
                  (cacheState[c] # 0 /\ writer[cacheState[c]] = NoThread
                      /\ readers[cacheState[c]] = {}) => ENABLED GcLockWrite(t, c)
        /\ (th[t].pc = "acquire_write" /\ writer[StateOf(t)] = NoThread
               /\ readers[StateOf(t)] = {}) => ENABLED FetchLockWrite(t)
        /\ th[t].pc \notin {"idle", "acquire_write"} => ENABLED Continue(t)

\* While a consumer is inside the guard's scope on a Config, a fetch of its key has hit it
C16_Witness ==
    \E c \in Consumers : \E t \in Threads :
        /\ cons[c].pc = "using"
        /\ th[t].pc = "hit"
        /\ th[t].found = cons[c].res

\* ... a fetch of another key has taken the keep-alive slot from it
C16_WitnessInstall ==
    \E c \in Consumers : \E t \in Threads :
        /\ cons[c].pc = "using"
        /\ th[t].pc = "installed"
        /\ lastInstalled = th[t].config
        /\ fetched[1].res = cons[c].res
        /\ fetched[1].installed

\* ... and garbage_collect has run
C16_WitnessGc ==
    \E c \in Consumers : \E t \in Threads :
        /\ cons[c].pc = "using"
        /\ th[t].pc = "gc_done"
        /\ cert[cons[c].res] \in DOMAIN path_to_config[StateOf(t)]

====
